---- MODULE Spec2Model ----
(***************************************************************************)
(* The concurrent sync engine of the file transferer and the two front     *)
(* ends that drive it:                                                     *)
(*   src/uigdrive.py   LocalTransfer, GDriveTransfer, TabState, App        *)
(*   src/uipytest.py   transfer, App                                       *)
(*   src/pytest.py     the batch program: sync_multiple and its functions  *)
(* One behaviour is one execution of one of the two programs (prog) on one *)
(* source/destination pair (tree).  Worker threads, pool tasks, the Tk     *)
(* callbacks and the queue handler are the actions.                        *)
(***************************************************************************)
EXTENDS Integers, Sequences, FiniteSets, TLC

VARIABLES
    prog,     \* which program runs: "uigdrive", "uipytest" or "pytest"
    tree,     \* the source tree and what the destination held at start-up
    dstfs,    \* the destination files, one per source file (Path d of a task)
    remote,   \* the Drive folder: the entries uploaded so far (title, size, md5)
    queue,    \* App.progress_queue: the events put and not yet read
    tabs,     \* TabState per tab (uigdrive) / the App's own fields (uipytest)
    runs,     \* every worker thread started so far, in start order
    login,    \* the login thread of the GDrive tab: "idle", "running"
    probe     \* one call of needs_update: its variant, arguments and outcome

vars == <<prog, tree, dstfs, remote, queue, tabs, runs, login, probe>>

---------------------------------------------------------------------------
(* Bounds of the model *)

\* worker threads started in one behaviour
MaxRuns == 2
\* sizes (bytes) of the small files of the source trees
SizeA == 5
SizeB == 3

---------------------------------------------------------------------------
(* Program constants *)

CHUNK_SIZE == 1024 * 1024
LARGE_FILE_THRESHOLD == 10 * 1024 * 1024
\* min(8, max(2, os.cpu_count() or 4)): the value on a machine with two cores
WORKERS == 2

TAB_LOCAL == "Local Transfer"
TAB_GDRIVE == "GDrive Transfer"
\* uipytest has one session and its events carry no tab_id
TAB_APP == "App"

\* the batch program (pytest.py) has no window
TabsOf(p) ==
    IF p = "uigdrive" THEN {TAB_LOCAL, TAB_GDRIVE}
    ELSE IF p = "uipytest" THEN {TAB_APP}
    ELSE {}

---------------------------------------------------------------------------
(* Files.  mtime is <<seconds, fraction>>: int(st_mtime) is the first part.  *)
(* Content is named by cid; a prefix of a file is its cid with a smaller     *)
(* size.  st: "ok", "noread" (stat works, open fails), "nostat" (a broken    *)
(* symlink: os.walk lists it, stat and open fail), "statonly" (the stat      *)
(* call fails and the file can still be opened and read: a transient I/O     *)
(* failure).  A destination record without st is "ok".                       *)

SrcFile(n, sz, mt, c, s) == [name |-> n, size |-> sz, mtime |-> mt, cid |-> c, st |-> s]
\* a file in the subfolder d of the source folder
SubFile(d, n, sz, mt, c, s) ==
    [dir |-> d, name |-> n, size |-> sz, mtime |-> mt, cid |-> c, st |-> s]
\* os.path.relpath(root, self.src) of the folder that holds f
Rel(f) == IF "dir" \in DOMAIN f THEN f.dir ELSE "."
DstFile(sz, mt, c) == [exists |-> TRUE, size |-> sz, mtime |-> mt, cid |-> c]
Absent == [exists |-> FALSE, size |-> 0, mtime |-> <<0, 0>>, cid |-> "none"]

\* the clock value a write stamps on a destination file; no source file of
\* the trees below is dated later than it
Now == <<2, 0>>

\* dst_ok: directories and files can be created under the destination root
Tree(k, fs, ds) == [kind |-> k, files |-> fs, dst0 |-> ds, dst_ok |-> TRUE]
ReadOnlyDst(tr) == [tr EXCEPT !.dst_ok = FALSE]

fa == SrcFile("a.txt", SizeA, <<1, 1>>, "A", "ok")
fb == SrcFile("b.txt", SizeB, <<1, 0>>, "B", "ok")
fc == SrcFile("c.txt", SizeB, <<1, 0>>, "C", "ok")
fz == SrcFile("z.txt", 0, <<1, 0>>, "Z", "ok")
fbad == SrcFile("a.txt", SizeA, <<1, 0>>, "A", "noread")
fbig == SrcFile("b.bin", LARGE_FILE_THRESHOLD, <<1, 0>>, "BIG", "ok")
\* a file of more than one chunk below the threshold
fmid == SrcFile("m.bin", 2 * CHUNK_SIZE + SizeB, <<1, 0>>, "MID", "ok")

\* two files of 29 and 21 bytes: 29 bytes of 50 are 58 percent
fp == SrcFile("p.dat", 29, <<1, 0>>, "P", "ok")
fq == SrcFile("q.dat", 21, <<1, 0>>, "Q", "ok")

\* two files of the same name in two subfolders
fx1 == SubFile("s1", "x.txt", SizeA, <<1, 0>>, "X1", "ok")
fx2 == SubFile("s2", "x.txt", SizeB, <<1, 0>>, "X2", "ok")

\* a broken symlink: os.walk lists it among the files and its stat raises
flink == SrcFile("l.txt", SizeA, <<1, 0>>, "L", "nostat")

Trees ==
    { Tree("dir", <<fa, fb>>, <<Absent, Absent>>),
      Tree("dir", <<fp, fq>>, <<Absent, Absent>>),
      Tree("dir", <<fx1, fx2>>, <<Absent, Absent>>),
      Tree("dir", <<flink, fb>>, <<Absent, Absent>>),
      Tree("dir", <<fb, flink>>, <<Absent, DstFile(SizeA, <<1, 0>>, "L")>>),
      Tree("dir", <<fa, fb>>, <<DstFile(SizeA, <<1, 1>>, "A"), Absent>>),
      Tree("dir", <<fa, fb>>, <<DstFile(SizeA, <<2, 0>>, "X"), DstFile(SizeB, <<0, 1>>, "B")>>),
      Tree("dir", <<fbad, fb>>, <<Absent, Absent>>),
      Tree("dir", <<fz, fb, fc>>, <<Absent, Absent, Absent>>),
      Tree("dir", <<fbig>>, <<Absent>>),
      Tree("dir", <<fmid>>, <<Absent>>),
      Tree("dir", <<>>, <<>>),
      ReadOnlyDst(Tree("dir", <<fb>>, <<Absent>>)),
      Tree("file", <<fa>>, <<Absent>>),
      Tree("file", <<fz>>, <<Absent>>),
      Tree("missing", <<>>, <<>>),
      Tree("other", <<>>, <<>>) }

\* the folders uploaded to Google Drive
GTrees ==
    { Tree("dir", <<fa, fb>>, <<Absent, Absent>>),
      Tree("dir", <<fx1, fx2>>, <<Absent, Absent>>),
      Tree("dir", <<fbad, fb>>, <<Absent, Absent>>),
      Tree("dir", <<>>, <<>>),
      Tree("file", <<fa>>, <<Absent>>) }

---------------------------------------------------------------------------
(* Pure functions *)

\* a variant that puts every file directly under the destination folder
DstPathFlat(tr, f) ==
    IF tr.kind = "file" THEN <<"dst", f.name>> ELSE <<"dst", "src", f.name>>

\* the destination path of a task, as path components, for the source "src"
\* and the destination root "dst".  sync_file: self.dst.joinpath(self.src.name);
\* sync_folder: dst_root.joinpath(rel) / f with dst_root = dst / src.name, where
\* pathlib drops the component "."
DstPath(tr, f) ==
    IF tr.kind = "file" THEN <<"dst", f.name>>
    ELSE <<"dst", "src">> \o (IF Rel(f) = "." THEN <<>> ELSE <<Rel(f)>>) \o <<f.name>>

\* int(st_mtime)
Seconds(mt) == mt[1]

\* the outcome of the I/O calls on a file
St(f) == IF "st" \in DOMAIN f THEN f.st ELSE "ok"
\* Path.stat / os.path.getsize / os.path.getmtime raises
StatFails(f) == St(f) \in {"nostat", "statonly"}
\* open(path, "rb") raises
ReadFails(f) == St(f) \in {"noread", "nostat"}

\* get_file_hash / transfer.file_hash: equal digests iff equal content
FileHash(f) == IF f.size = 0 THEN <<0, "empty">> ELSE <<f.size, f.cid>>

\* a variant of needs_update that also copies when the whole-second mtimes
\* are equal
NeedsUpdateSameSecond(s, d) ==
    IF ~d.exists THEN TRUE
    ELSE IF StatFails(s) \/ StatFails(d) THEN TRUE
    ELSE IF s.size # d.size THEN TRUE
    ELSE IF Seconds(s.mtime) >= Seconds(d.mtime) THEN TRUE
    ELSE IF ReadFails(s) \/ ReadFails(d) THEN TRUE
    ELSE FileHash(s) # FileHash(d)

\* a variant of needs_update that compares the modification times without
\* truncating them to whole seconds
NeedsUpdateExactTime(s, d) ==
    IF ~d.exists THEN TRUE
    ELSE IF StatFails(s) \/ StatFails(d) THEN TRUE
    ELSE IF s.size # d.size THEN TRUE
    ELSE IF \/ s.mtime[1] > d.mtime[1]
            \/ s.mtime[1] = d.mtime[1] /\ s.mtime[2] > d.mtime[2] THEN TRUE
    ELSE IF ReadFails(s) \/ ReadFails(d) THEN TRUE
    ELSE FileHash(s) # FileHash(d)

\* a variant of needs_update that trusts a destination newer than the
\* source without comparing the digests
NeedsUpdateTrustNewer(s, d) ==
    IF ~d.exists THEN TRUE
    ELSE IF StatFails(s) \/ StatFails(d) THEN TRUE
    ELSE IF s.size # d.size THEN TRUE
    ELSE IF Seconds(s.mtime) > Seconds(d.mtime) THEN TRUE
    ELSE IF Seconds(s.mtime) < Seconds(d.mtime) THEN FALSE
    ELSE IF ReadFails(s) \/ ReadFails(d) THEN TRUE
    ELSE FileHash(s) # FileHash(d)

\* a variant of needs_update that copies only what the destination lacks
NeedsUpdateIfAbsent(s, d) == ~d.exists

\* LocalTransfer.needs_update
NeedsUpdate(s, d) ==
    IF ~d.exists THEN TRUE
    ELSE IF StatFails(s) \/ StatFails(d) THEN TRUE
    ELSE IF s.size # d.size THEN TRUE
    ELSE IF Seconds(s.mtime) > Seconds(d.mtime) THEN TRUE
    ELSE IF ReadFails(s) \/ ReadFails(d) THEN TRUE
    ELSE FileHash(s) # FileHash(d)

\* transfer.needs_update (uipytest): a failing stat is passed over and the
\* digests decide; a source that cannot be opened makes the digest raise
PyNeedsUpdate(s, d) ==
    IF ~d.exists THEN TRUE
    ELSE IF ~(StatFails(s) \/ StatFails(d)) /\ s.size # d.size THEN TRUE
    ELSE IF ~(StatFails(s) \/ StatFails(d)) /\ Seconds(s.mtime) > Seconds(d.mtime) THEN TRUE
    ELSE IF ReadFails(s) \/ ReadFails(d) THEN TRUE
    ELSE FileHash(s) # FileHash(d)

\* needs_update of the batch program (pytest.py) has no try: the call raises
\* when a stat or a read it reaches fails
BatchNeedsUpdateRaises(s, d) ==
    IF ~d.exists THEN FALSE
    ELSE IF StatFails(s) \/ StatFails(d) THEN TRUE
    ELSE IF s.size # d.size THEN FALSE
    ELSE IF Seconds(s.mtime) > Seconds(d.mtime) THEN FALSE
    ELSE ReadFails(s) \/ ReadFails(d)

\* needs_update of the batch program (pytest.py): the value it returns when
\* it does not raise
BatchNeedsUpdate(s, d) ==
    IF ~d.exists THEN TRUE
    ELSE IF s.size # d.size THEN TRUE
    ELSE IF Seconds(s.mtime) > Seconds(d.mtime) THEN TRUE
    ELSE FileHash(s) # FileHash(d)

RECURSIVE Pow2(_)
Pow2(n) == IF n = 0 THEN 1 ELSE 2 * Pow2(n - 1)

RECURSIVE FloorLog2(_)
FloorLog2(k) == IF k < 2 THEN 0 ELSE 1 + FloorLog2(k \div 2)

RECURSIVE BinaryExponent(_, _, _)
\* the a with 2^(-a) <= c / t < 2^(1-a): the binary exponent of the float
\* quotient c / t, negated
BinaryExponent(c, t, a) ==
    IF c >= 2 * t THEN BinaryExponent(c, 2 * t, a - 1)
    ELSE IF c < t THEN BinaryExponent(2 * c, t, a + 1)
    ELSE a

RECURSIVE DivisionRest(_, _, _)
\* n further bits (four at a time) of the binary long division whose rest is
\* r and whose divisor is d: the rest after them and the last bit
DivisionRest(r, d, n) ==
    IF r = 0 THEN <<0, 0>>
    ELSE LET q == (16 * r) \div d
             rest == (16 * r) % d
         IN  IF n <= 4 THEN <<rest, q % 2>> ELSE DivisionRest(rest, d, n - 4)

\* c / t * 100 in IEEE-754 double arithmetic, where 100 * c / t is a whole
\* number k: the quotient c / t is rounded to 53 bits (to nearest, ties to
\* even), and its product by 100 is rounded again.  The result is below k
\* exactly when the quotient was rounded down by more than half the distance
\* between k and the double before k, divided by 100.
QuotientRoundsDown(c, t) ==
    LET a == BinaryExponent(c, t, 0)
        n == IF a > 0 THEN c * Pow2(a) ELSE c
        d == IF a < 0 THEN t * Pow2(-a) ELSE t
        rb == DivisionRest(n - d, d, 52)
        r == rb[1]
        odd == rb[2] = 1
        k == (c * 100) \div t
        j == a + FloorLog2(k) - (IF Pow2(FloorLog2(k)) = k THEN 1 ELSE 0)
    IN  /\ r > 0
        /\ 2 * r < d \/ (2 * r = d /\ ~odd)
        /\ j < 8
        /\ IF j >= 3 THEN 25 * r > d * Pow2(j - 3) ELSE 25 * r * Pow2(3 - j) > d

\* int(current_size[0] / totalsize * 100), totalsize > 0: a float division,
\* a float product and a truncation.  When 100 * cur / total is not a whole
\* number the two roundings cannot carry the product across a whole number
\* and the result is the integer quotient; when it is a whole number k the
\* result is k or k - 1.
Percent(cur, total) ==
    LET k == (cur * 100) \div total
    IN  IF cur > 0 /\ (cur * 100) % total = 0 /\ QuotientRoundsDown(cur, total)
        THEN k - 1 ELSE k

\* the percent of a "(Skipped)" event
SkipPercent(cur, total) == IF total # 0 THEN Percent(cur, total) ELSE 100

\* a variant in which every file is copied chunk by chunk
ChunkedAlways(p, s) == TRUE

\* the file goes through the chunk loop
Chunked(p, s) == p = "uipytest" \/ s.size >= LARGE_FILE_THRESHOLD

Min(a, b) == IF a < b THEN a ELSE b

RECURSIVE SumSizes(_, _)
\* totalsize of sync_folder: the sizes of the files whose stat works
SumSizes(fs, n) ==
    IF n = 0 THEN 0
    ELSE SumSizes(fs, n - 1) + (IF fs[n].st = "nostat" THEN 0 ELSE fs[n].size)

\* a variant of the terminal test that looks at the results before the token
TerminalPhaseErrorFirst(stop, results) ==
    IF \E k \in 1..Len(results) : results[k] = "error" THEN "error"
    ELSE IF stop THEN "cancelled"
    ELSE "done"

\* a variant of the terminal test that reports Cancelled when no result was
\* produced, whatever the token
TerminalPhaseNoResults(stop, results) ==
    IF stop \/ results = <<>> THEN "cancelled"
    ELSE IF \E k \in 1..Len(results) : results[k] = "error" THEN "error"
    ELSE "done"

\* a variant of the terminal test that never reads the token
TerminalPhaseNoToken(stop, results) ==
    IF \E k \in 1..Len(results) : results[k] = "error" THEN "error"
    ELSE "done"

\* the terminal phase LocalTransfer.run publishes once the sync returned
TerminalPhase(stop, results) ==
    IF stop THEN "cancelled"
    ELSE IF \E k \in 1..Len(results) : results[k] = "error" THEN "error"
    ELSE "done"

---------------------------------------------------------------------------
(* State *)

\* TabState.__init__ / create_tab1 / create_tab2 / App.__init__ (uipytest)
InitTab(t) ==
    [ start_btn     |-> IF t = TAB_GDRIVE THEN "disabled" ELSE "normal",
      stop_btn      |-> "disabled",
      stop_event    |-> FALSE,
      worker_thread |-> 0,          \* 0 is None, else the index of the thread in runs
      progress_bar  |-> 0,
      gdrive_service |-> FALSE,
      login_btn     |-> "normal",
      ack           |-> "none",     \* history: the terminal phase read since the last start request
      again         |-> "none" ]    \* history: cancel_transfer was called with the token set
                                    \* ("running": while the worker ran, else "idle")

\* history of a task: deltas and bytes count the amounts it added to
\* current_size; meta is the outcome of the copy of the metadata ("none", "ok",
\* "failed"); late counts the chunks it wrote while the token was set.  dst is
\* the destination path of the task (d of tasks.append((s, d))).  seen
\* is the value of current_size[0] the task loaded for its "+=".
NoTask ==
    [ pc |-> "queued", kind |-> "none", delta |-> 0, pct |-> 0, result |-> "none",
      deltas |-> 0, bytes |-> 0, meta |-> "none", seen |-> 0, late |-> 0,
      dst |-> <<>> ]

\* LocalTransfer.__init__ / transfer.__init__ / GDriveTransfer.__init__
NewRun(t, c) ==
    [ tab |-> t, cls |-> c, pc |-> "begin", mode |-> "none",
      totalsize |-> 0, current_size |-> 0, lock |-> 0,
      task |-> <<>>, results |-> <<>>, next |-> 1,
      uploaded_count |-> 0, skipped_count |-> 0, remote_files |-> <<>>,
      phase |-> "none",     \* the terminal phase the thread published
      synced |-> FALSE,     \* sync_file / sync_folder returned its results
      canc |-> FALSE,       \* history: cancel_transfer set the token while the thread ran
      lastPct |-> -1,       \* history: percent of the last downloading event put
      added |-> 0,          \* history: the sum of the amounts added to current_size
      wrote |-> FALSE,      \* history: a destination file was created, truncated or written
      terms |-> 0 ]         \* history: the number of done, error and cancelled events put

\* no call of needs_update outside the runs
NoProbe == [variant |-> "none", s |-> fa, d |-> Absent, out |-> "none"]

\* the start-up state of program prog on a tree, with the calls prs of
\* needs_update to make
InitProbe(ps, trs, prs) ==
    /\ prog \in ps
    /\ tree \in trs
    /\ dstfs = tree.dst0
    /\ remote = <<>>
    /\ queue = <<>>
    /\ tabs = [t \in TabsOf(prog) |-> InitTab(t)]
    /\ runs = <<>>
    /\ login = "idle"
    /\ probe \in prs

InitWith(ps, trs) == InitProbe(ps, trs, {NoProbe})

Init == InitWith({"uigdrive", "uipytest"}, Trees)

Alive(r) == runs[r].pc # "done"
NTasks(r) == Len(runs[r].task)
Token(r) == tabs[runs[r].tab].stop_event
Src(i) == tree.files[i]

Event(ph, pc, nm, sk, t, r) ==
    [phase |-> ph, percent |-> pc, name |-> nm, skipped |-> sk, tab_id |-> t, run |-> r]

\* a terminal or status event of thread r
PhaseEvent(ph, r) == Event(ph, 0, "", FALSE, runs[r].tab, r)

\* a task returns res
Return(r, i, res) == [runs EXCEPT ![r].task[i].pc = "done", ![r].task[i].result = res]

---------------------------------------------------------------------------
(* LocalTransfer / transfer: the thread *)

\* run, up to the point where the tasks are submitted (sync_folder) or the
\* single task is entered (sync_file)
RunBegin(r) ==
    /\ r \in 1..Len(runs)
    /\ runs[r].cls = "local"
    /\ runs[r].pc = "begin"
    /\ IF tree.kind \in {"missing", "other"} \/ (tree.kind = "dir" /\ ~tree.dst_ok)
       THEN /\ queue' = Append(queue, PhaseEvent("error", r))
            /\ runs' = [runs EXCEPT ![r].pc = "done", ![r].phase = "error",
                                      ![r].terms = @ + 1]
       ELSE /\ queue' = queue
            /\ runs' = [runs EXCEPT
                  ![r].pc = "collect",
                  ![r].mode = tree.kind,
                  ![r].task = [i \in 1..Len(tree.files) |->
                                 [NoTask EXCEPT !.dst = DstPath(tree, Src(i))]],
                  ![r].totalsize =
                      IF tree.kind = "file"
                      THEN (IF Src(1).st = "nostat" THEN 1 ELSE Src(1).size)
                      ELSE LET sum == SumSizes(tree.files, Len(tree.files))
                           IN  IF sum = 0 /\ Len(tree.files) > 0 THEN 1 ELSE sum]
    /\ UNCHANGED <<probe, prog, tree, dstfs, remote, tabs, login>>

\* a pool thread is free for task i: the work queue is FIFO and holds at most
\* self.workers running tasks; sync_file runs its task on the thread itself
PoolFree(r, i) ==
    \/ runs[r].mode = "file"
    \/ /\ \A j \in 1..(i - 1) : runs[r].task[j].pc # "queued"
       /\ Cardinality({j \in 1..NTasks(r) : runs[r].task[j].pc \notin {"queued", "done"}}) < WORKERS

\* a variant in which process_file and copy_file_with_progress do not look at
\* the token when they are entered
EntryCheckSkipped(r) == FALSE

\* "if self.stop_event.is_set(): return ("cancelled", ...)" at the entry of
\* process_file and of copy_file_with_progress
EntryCheck(r) == Token(r)

\* process_file: the token check and the change check
ProcessFile(r, i) ==
    /\ r \in 1..Len(runs)
    /\ runs[r].cls = "local"
    /\ i \in 1..NTasks(r)
    /\ runs[r].task[i].pc = "queued"
    /\ PoolFree(r, i)
    /\ runs' =
         IF EntryCheck(r) THEN Return(r, i, "cancelled")
         ELSE IF (IF prog = "uigdrive" THEN NeedsUpdate(Src(i), dstfs[i])
                                       ELSE PyNeedsUpdate(Src(i), dstfs[i]))
         THEN [runs EXCEPT ![r].task[i].pc = "copy"]
         ELSE [runs EXCEPT ![r].task[i].pc = "lock", ![r].task[i].kind = "skip"]
    /\ UNCHANGED <<probe, prog, tree, dstfs, remote, queue, tabs, login>>

\* a variant in which only a destination that cannot be written makes the
\* copy raise
CopyFailsOnWrite(i) == ~tree.dst_ok

\* mkdir, src_file.stat().st_size, open or copy2 raises: the source cannot be
\* queried or read, or nothing can be created under the destination
CopyFails(i) == Src(i).st # "ok" \/ ~tree.dst_ok

\* copy_file_with_progress up to the chunk loop, or through shutil.copy2
CopyBegin(r, i) ==
    /\ r \in 1..Len(runs)
    /\ runs[r].cls = "local"
    /\ i \in 1..NTasks(r)
    /\ runs[r].task[i].pc = "copy"
    /\ IF EntryCheck(r)
       THEN /\ runs' = Return(r, i, "cancelled")
            /\ dstfs' = dstfs
       ELSE IF CopyFails(i)
       THEN /\ runs' = Return(r, i, "error")
            /\ dstfs' = dstfs
       ELSE IF Chunked(prog, Src(i))
       THEN /\ runs' = [runs EXCEPT ![r].task[i].pc = "chunk_check",
                                    ![r].task[i].kind = "chunk",
                                    ![r].wrote = TRUE]
            /\ dstfs' = [dstfs EXCEPT ![i] = DstFile(0, Now, Src(i).cid)]
       ELSE \* shutil.copy2: copyfile, then copystat, whose failure is raised
            \E copystat \in BOOLEAN :
              IF copystat
              THEN /\ runs' = [runs EXCEPT ![r].task[i].pc = "lock",
                                           ![r].task[i].kind = "small",
                                           ![r].task[i].delta = Src(i).size,
                                           ![r].task[i].meta = "ok",
                                           ![r].wrote = TRUE]
                   /\ dstfs' = [dstfs EXCEPT
                                   ![i] = DstFile(Src(i).size, Src(i).mtime, Src(i).cid)]
              ELSE /\ runs' = [Return(r, i, "error") EXCEPT
                                           ![r].task[i].kind = "small",
                                           ![r].task[i].meta = "failed",
                                           ![r].wrote = TRUE]
                   /\ dstfs' = [dstfs EXCEPT
                                   ![i] = DstFile(Src(i).size, Now, Src(i).cid)]
    /\ UNCHANGED <<probe, prog, tree, remote, queue, tabs, login>>

\* a variant in which the chunk loop does not look at the token
LoopCheckSkipped(r) == FALSE

\* "if self.stop_event.is_set(): return ("cancelled", ...)" in the chunk loop
LoopCheck(r) == Token(r)

\* the chunk loop: the token check before each read
ChunkCheck(r, i) ==
    /\ r \in 1..Len(runs)
    /\ i \in 1..NTasks(r)
    /\ runs[r].task[i].pc = "chunk_check"
    /\ runs' = IF LoopCheck(r) THEN Return(r, i, "cancelled")
               ELSE [runs EXCEPT ![r].task[i].pc = "chunk_rw"]
    /\ UNCHANGED <<probe, prog, tree, dstfs, remote, queue, tabs, login>>

\* the chunk loop: read a chunk and write it, or leave the loop at end of
\* file, copy the metadata (a failure of copystat is passed over and leaves
\* the time of the last write) and return
ChunkCopy(r, i) ==
    /\ r \in 1..Len(runs)
    /\ i \in 1..NTasks(r)
    /\ runs[r].task[i].pc = "chunk_rw"
    /\ LET n == Min(CHUNK_SIZE, Src(i).size - dstfs[i].size)
       IN  IF n = 0
           THEN \E copystat \in BOOLEAN :
                  IF copystat
                  THEN /\ dstfs' = [dstfs EXCEPT ![i].mtime = Src(i).mtime]
                       /\ runs' = [Return(r, i, "updated") EXCEPT ![r].task[i].meta = "ok"]
                  ELSE /\ dstfs' = dstfs
                       /\ runs' = [Return(r, i, "updated") EXCEPT ![r].task[i].meta = "failed"]
           ELSE /\ dstfs' = [dstfs EXCEPT ![i].size = @ + n, ![i].mtime = Now]
                /\ runs' = [runs EXCEPT ![r].task[i].pc = "lock", ![r].task[i].delta = n,
                                        ![r].task[i].late = IF Token(r) THEN @ + 1 ELSE @]
    /\ UNCHANGED <<probe, prog, tree, remote, queue, tabs, login>>

\* a variant in which the progress update takes no lock
LockNotTaken(r) == TRUE

\* the lock of a run is free for a task
LockFree(r) == runs[r].lock = 0

\* "with lock:" entered, and the load of current_size[0] that begins
\* "current_size[0] += ..." (a load, an add and a store)
LockAcquire(r, i) ==
    /\ r \in 1..Len(runs)
    /\ runs[r].cls = "local"
    /\ i \in 1..NTasks(r)
    /\ runs[r].task[i].pc = "lock"
    /\ LockFree(r)
    /\ runs' = [runs EXCEPT ![r].lock = i, ![r].task[i].pc = "add",
                            ![r].task[i].seen = runs[r].current_size]
    /\ UNCHANGED <<probe, prog, tree, dstfs, remote, queue, tabs, login>>

\* the store of "current_size[0] += ..." and the computation of pct
LockAdd(r, i) ==
    /\ r \in 1..Len(runs)
    /\ runs[r].cls = "local"
    /\ i \in 1..NTasks(r)
    /\ runs[r].task[i].pc = "add"
    /\ LET t == runs[r].task[i]
           cur == t.seen + t.delta
           total == runs[r].totalsize
       IN  IF t.kind = "skip"
           THEN runs' = [runs EXCEPT ![r].task[i].pc = "put",
                                     ![r].task[i].pct = SkipPercent(runs[r].current_size, total)]
           ELSE IF total = 0
           THEN \* ZeroDivisionError: the lock is released, the copy returns error
                runs' = [Return(r, i, "error") EXCEPT ![r].lock = 0,
                                                      ![r].current_size = cur,
                                                      ![r].added = @ + t.delta,
                                                      ![r].task[i].deltas = @ + 1,
                                                      ![r].task[i].bytes = @ + t.delta]
           ELSE runs' = [runs EXCEPT ![r].task[i].pc = "put",
                                     ![r].current_size = cur,
                                     ![r].added = @ + t.delta,
                                     ![r].task[i].deltas = @ + 1,
                                     ![r].task[i].bytes = @ + t.delta,
                                     ![r].task[i].pct = Percent(cur, total)]
    /\ UNCHANGED <<probe, prog, tree, dstfs, remote, queue, tabs, login>>

\* progress_queue.put of the downloading event, and the end of "with lock:"
PutProgress(r, i) ==
    /\ r \in 1..Len(runs)
    /\ runs[r].cls = "local"
    /\ i \in 1..NTasks(r)
    /\ runs[r].task[i].pc = "put"
    /\ LET t == runs[r].task[i]
           sk == t.kind = "skip" /\ prog = "uigdrive"
           rs == [runs EXCEPT ![r].lock = 0, ![r].lastPct = t.pct]
       IN  /\ queue' = Append(queue, Event("downloading", t.pct, Src(i).name, sk, runs[r].tab, r))
           /\ runs' = CASE t.kind = "chunk" -> [rs EXCEPT ![r].task[i].pc = "chunk_check"]
                        [] t.kind = "small" -> [rs EXCEPT ![r].task[i].pc = "done",
                                                          ![r].task[i].result = "updated"]
                        [] OTHER -> [rs EXCEPT ![r].task[i].pc = "done",
                                               ![r].task[i].result = "skipped"]
    /\ UNCHANGED <<probe, prog, tree, dstfs, remote, tabs, login>>

\* a variant of the collection loop that also leaves the loop at the first
\* error result
CollectAbortOnError(r) ==
    /\ r \in 1..Len(runs)
    /\ runs[r].cls = "local"
    /\ runs[r].pc = "collect"
    /\ runs[r].next <= NTasks(r)
    /\ runs[r].task[runs[r].next].pc = "done"
    /\ runs' = [runs EXCEPT
          ![r].results = Append(@, runs[r].task[runs[r].next].result),
          ![r].next = @ + 1,
          ![r].pc = IF runs[r].mode = "dir"
                       /\ (Token(r) \/ runs[r].task[runs[r].next].result = "error")
                    THEN "shutdown" ELSE "collect"]
    /\ UNCHANGED <<probe, prog, tree, dstfs, remote, queue, tabs, login>>

\* sync_folder: "res = fut.result(); results.append(res); if stop: break";
\* sync_file: "return [res]"
Collect(r) ==
    /\ r \in 1..Len(runs)
    /\ runs[r].cls = "local"
    /\ runs[r].pc = "collect"
    /\ runs[r].next <= NTasks(r)
    /\ runs[r].task[runs[r].next].pc = "done"
    /\ runs' = [runs EXCEPT
          ![r].results = Append(@, runs[r].task[runs[r].next].result),
          ![r].next = @ + 1,
          ![r].pc = IF runs[r].mode = "dir" /\ Token(r) THEN "shutdown" ELSE "collect"]
    /\ UNCHANGED <<probe, prog, tree, dstfs, remote, queue, tabs, login>>

\* a variant in which the pool is left without waiting for its tasks
PoolAbandoned(r) == TRUE

\* ThreadPoolExecutor.__exit__: shutdown(wait=True) returns once every
\* submitted task has finished
PoolJoined(r) == \A i \in 1..NTasks(r) : runs[r].task[i].pc = "done"

\* the end of "with ThreadPoolExecutor": every submitted task has finished;
\* then run publishes the terminal phase and the thread ends
RunFinish(r) ==
    /\ r \in 1..Len(runs)
    /\ runs[r].cls = "local"
    /\ \/ runs[r].pc = "shutdown"
       \/ runs[r].pc = "collect" /\ runs[r].next > NTasks(r)
    /\ PoolJoined(r)
    /\ LET ph == TerminalPhase(Token(r), runs[r].results)
       IN  /\ queue' = Append(queue, PhaseEvent(ph, r))
           /\ runs' = [runs EXCEPT ![r].pc = "done", ![r].phase = ph, ![r].synced = TRUE,
                                   ![r].terms = @ + 1]
    /\ UNCHANGED <<probe, prog, tree, dstfs, remote, tabs, login>>

---------------------------------------------------------------------------
(* GDriveTransfer: the thread *)

RemoteEntry(f) == [title |-> f.name, size |-> f.size, md5 |-> FileHash(f)]

\* remote_files[title]: the dict keeps the last listed entry of a title
\* (0: the title is not listed)
RECURSIVE RemoteIndex(_, _, _)
RemoteIndex(listing, title, n) ==
    IF n = 0 THEN 0
    ELSE IF listing[n].title = title THEN n
    ELSE RemoteIndex(listing, title, n - 1)

\* "if file_name in remote_files" and the size and md5 comparison
RemoteSame(listing, f) ==
    LET k == RemoteIndex(listing, f.name, Len(listing))
    IN  k # 0 /\ listing[k].size = f.size /\ listing[k].md5 = FileHash(f)

StatusEvent(r) == PhaseEvent("status", r)

\* run, up to the submission of the tasks: the folder lookup, the listing of
\* the remote files and the walk over the local files; a failing Drive call
\* (fails) ends in the outer except
GRunBegin(r) ==
    /\ r \in 1..Len(runs)
    /\ runs[r].cls = "gdrive"
    /\ runs[r].pc = "begin"
    /\ \E fails \in BOOLEAN :
         IF tree.kind # "dir"
         THEN /\ ~fails
              /\ queue' = Append(queue, PhaseEvent("error", r))
              /\ runs' = [runs EXCEPT ![r].pc = "done", ![r].phase = "error",
                                      ![r].terms = @ + 1]
         ELSE IF fails
         THEN /\ queue' = queue \o <<StatusEvent(r), PhaseEvent("error", r)>>
              /\ runs' = [runs EXCEPT ![r].pc = "done", ![r].phase = "error",
                                      ![r].terms = @ + 1]
         ELSE IF Len(tree.files) = 0
         THEN /\ queue' = queue \o <<StatusEvent(r), StatusEvent(r), StatusEvent(r),
                                     PhaseEvent("done", r)>>
              /\ runs' = [runs EXCEPT ![r].pc = "done", ![r].phase = "done",
                                      ![r].remote_files = remote,
                                      ![r].terms = @ + 1]
         ELSE /\ queue' = queue \o <<StatusEvent(r), StatusEvent(r), StatusEvent(r)>>
              /\ runs' = [runs EXCEPT ![r].pc = "wait", ![r].mode = "dir",
                                      ![r].remote_files = remote,
                                      ![r].totalsize = Len(tree.files),
                                      ![r].task = [i \in 1..Len(tree.files) |-> NoTask]]
    /\ UNCHANGED <<probe, prog, tree, dstfs, remote, tabs, login>>

\* check_and_upload_file: the token check, stat, digest and comparison with
\* the remote listing
GCheck(r, i) ==
    /\ r \in 1..Len(runs)
    /\ runs[r].cls = "gdrive"
    /\ i \in 1..NTasks(r)
    /\ runs[r].task[i].pc = "queued"
    /\ PoolFree(r, i)
    /\ runs' =
         IF Token(r) THEN Return(r, i, "returned")
         ELSE IF Src(i).st # "ok" THEN [runs EXCEPT ![r].task[i].pc = "failed"]
         ELSE IF RemoteSame(runs[r].remote_files, Src(i))
         THEN [runs EXCEPT ![r].task[i].pc = "lock", ![r].task[i].kind = "skip"]
         ELSE [runs EXCEPT ![r].task[i].pc = "upload"]
    /\ UNCHANGED <<probe, prog, tree, dstfs, remote, queue, tabs, login>>

\* CreateFile, SetContentFile, Upload; the Drive call may raise (fails)
GUpload(r, i) ==
    /\ r \in 1..Len(runs)
    /\ i \in 1..NTasks(r)
    /\ runs[r].task[i].pc = "upload"
    /\ \E fails \in BOOLEAN :
         IF fails
         THEN /\ runs' = [runs EXCEPT ![r].task[i].pc = "failed"]
              /\ remote' = remote
         ELSE /\ runs' = [runs EXCEPT ![r].task[i].pc = "lock", ![r].task[i].kind = "up"]
              /\ remote' = Append(remote, RemoteEntry(Src(i)))
    /\ UNCHANGED <<probe, prog, tree, dstfs, queue, tabs, login>>

\* "with lock:" up to the computation of pct
GLockAdd(r, i) ==
    /\ r \in 1..Len(runs)
    /\ runs[r].cls = "gdrive"
    /\ i \in 1..NTasks(r)
    /\ runs[r].task[i].pc = "lock"
    /\ LockFree(r)
    /\ LET up == runs[r].uploaded_count + (IF runs[r].task[i].kind = "up" THEN 1 ELSE 0)
           sk == runs[r].skipped_count + (IF runs[r].task[i].kind = "skip" THEN 1 ELSE 0)
       IN  runs' = [runs EXCEPT ![r].lock = i, ![r].task[i].pc = "put",
                                ![r].uploaded_count = up, ![r].skipped_count = sk,
                                ![r].task[i].pct = Percent(up + sk, runs[r].totalsize)]
    /\ UNCHANGED <<probe, prog, tree, dstfs, remote, queue, tabs, login>>

\* progress_queue.put of the downloading event, and the end of "with lock:"
GPutProgress(r, i) ==
    /\ r \in 1..Len(runs)
    /\ runs[r].cls = "gdrive"
    /\ i \in 1..NTasks(r)
    /\ runs[r].task[i].pc = "put"
    /\ LET t == runs[r].task[i]
       IN  /\ queue' = Append(queue, Event("downloading", t.pct, Src(i).name,
                                           t.kind = "skip", runs[r].tab, r))
           /\ runs' = [runs EXCEPT ![r].lock = 0, ![r].lastPct = t.pct,
                                   ![r].task[i].pc = "done",
                                   ![r].task[i].result =
                                       IF t.kind = "skip" THEN "skipped" ELSE "updated"]
    /\ UNCHANGED <<probe, prog, tree, dstfs, remote, tabs, login>>

\* "except Exception as e: progress_queue.put({phase: error, ...})" of one file
GFileError(r, i) ==
    /\ r \in 1..Len(runs)
    /\ i \in 1..NTasks(r)
    /\ runs[r].task[i].pc = "failed"
    /\ queue' = Append(queue, PhaseEvent("error", r))
    /\ runs' = [Return(r, i, "error") EXCEPT ![r].terms = @ + 1]
    /\ UNCHANGED <<probe, prog, tree, dstfs, remote, tabs, login>>

\* every future has its result and the pool is shut down; run publishes the
\* terminal phase and the thread ends
GRunFinish(r) ==
    /\ r \in 1..Len(runs)
    /\ runs[r].cls = "gdrive"
    /\ runs[r].pc = "wait"
    /\ \A i \in 1..NTasks(r) : runs[r].task[i].pc = "done"
    /\ LET ph == IF Token(r) THEN "cancelled" ELSE "done"
       IN  /\ queue' = Append(queue, PhaseEvent(ph, r))
           /\ runs' = [runs EXCEPT ![r].pc = "done", ![r].phase = ph, ![r].synced = TRUE,
                                   ![r].terms = @ + 1]
    /\ UNCHANGED <<probe, prog, tree, dstfs, remote, tabs, login>>

\* App.Glogin, the command of an enabled Google Login button
Glogin ==
    /\ prog = "uigdrive"
    /\ tabs[TAB_GDRIVE].login_btn = "normal"
    /\ login = "idle"
    /\ tabs' = [tabs EXCEPT ![TAB_GDRIVE].login_btn = "disabled"]
    /\ login' = "running"
    /\ UNCHANGED <<probe, prog, tree, dstfs, remote, queue, runs>>

\* App._perform_login, the login thread: get_drive() returns or raises
PerformLogin ==
    /\ login = "running"
    /\ login' = "idle"
    /\ \E ok \in BOOLEAN :
         IF ok
         THEN /\ tabs' = [tabs EXCEPT ![TAB_GDRIVE].gdrive_service = TRUE]
              /\ queue' = Append(queue, Event("login_success", 0, "", FALSE, TAB_GDRIVE, 0))
         ELSE /\ tabs' = tabs
              /\ queue' = Append(queue, Event("login_error", 0, "", FALSE, TAB_GDRIVE, 0))
    /\ UNCHANGED <<probe, prog, tree, dstfs, remote, runs>>

---------------------------------------------------------------------------
(* The front ends *)

\* Thread.start of a new worker thread for tab t
Arm(ts, t, c) ==
    /\ runs' = Append(runs, NewRun(t, c))
    /\ tabs' = [ts EXCEPT ![t].worker_thread = Len(runs) + 1]

\* what start_transfer does to the tab before it validates further
Starting(t) ==
    [tabs EXCEPT ![t].progress_bar = 0, ![t].start_btn = "disabled",
                 ![t].stop_btn = "normal", ![t].stop_event = FALSE, ![t].ack = "none"]

\* the validation of start_transfer failed after the buttons were switched
Rejected(ts, t) ==
    [ts EXCEPT ![t].start_btn = "normal", ![t].stop_btn = "disabled"]

\* App.start_transfer (uigdrive), the command of an enabled Start button
StartTransfer(t) ==
    /\ prog = "uigdrive"
    /\ t \in TabsOf(prog)
    /\ tabs[t].start_btn = "normal"
    /\ Len(runs) < MaxRuns
    /\ \E src_given, dst_given \in BOOLEAN :
         IF ~src_given \/ tree.kind = "missing"
         THEN UNCHANGED <<tabs, runs>>
         ELSE IF t = TAB_GDRIVE
         THEN IF ~tabs[t].gdrive_service
              THEN tabs' = Rejected(Starting(t), t) /\ runs' = runs
              ELSE Arm(Starting(t), t, "gdrive")
         ELSE IF ~dst_given
              THEN tabs' = Rejected(Starting(t), t) /\ runs' = runs
              ELSE Arm(Starting(t), t, "local")
    /\ UNCHANGED <<probe, prog, tree, dstfs, remote, queue, login>>

\* App.start_transfer (uipytest).  transfer(src, dst, self.progress_queue,
\* self.stop_event) passes four arguments and transfer.__init__ takes five
\* (workers): as written the call raises TypeError after the buttons were
\* switched (raises).  ~raises is the call with its workers argument, the
\* thread the front end is written to start.
PyStartTransfer ==
    /\ prog = "uipytest"
    /\ tabs[TAB_APP].start_btn = "normal"
    /\ Len(runs) < MaxRuns
    /\ \E src_given, dst_given, raises \in BOOLEAN :
         IF ~src_given \/ ~dst_given
         THEN UNCHANGED <<tabs, runs>>
         ELSE IF raises
         THEN tabs' = Starting(TAB_APP) /\ runs' = runs
         ELSE Arm(Starting(TAB_APP), TAB_APP, "local")
    /\ UNCHANGED <<probe, prog, tree, dstfs, remote, queue, login>>

\* a variant of the token whose set() flips it
EventToggle(ev) == ~ev

\* threading.Event.set(): the flag is true afterwards, whatever it was
EventSet(ev) == TRUE

\* App.cancel_transfer (both front ends), the command of an enabled Cancel button
CancelTransfer(t) ==
    /\ t \in TabsOf(prog)
    /\ tabs[t].stop_btn = "normal"
    /\ IF tabs[t].worker_thread = 0
       THEN UNCHANGED <<tabs, runs>>
       ELSE /\ tabs' = [tabs EXCEPT ![t].stop_event = EventSet(@), ![t].stop_btn = "disabled"]
            /\ runs' = [r \in 1..Len(runs) |->
                          IF runs[r].tab = t /\ Alive(r)
                          THEN [runs[r] EXCEPT !.canc = TRUE] ELSE runs[r]]
    /\ UNCHANGED <<probe, prog, tree, dstfs, remote, queue, login>>

\* App.cancel_transfer called once more while the token of the tab is set,
\* whatever the state of the Cancel button
CancelAgain(t) ==
    /\ t \in TabsOf(prog)
    /\ tabs[t].stop_event
    /\ IF tabs[t].worker_thread = 0
       THEN /\ tabs' = [tabs EXCEPT ![t].again = "idle"]
            /\ runs' = runs
       ELSE /\ tabs' = [tabs EXCEPT ![t].stop_event = EventSet(@), ![t].stop_btn = "disabled",
                                    ![t].again = IF Alive(tabs[t].worker_thread)
                                                 THEN "running" ELSE "idle"]
            /\ runs' = [r \in 1..Len(runs) |->
                          IF runs[r].tab = t /\ Alive(r)
                          THEN [runs[r] EXCEPT !.canc = TRUE] ELSE runs[r]]
    /\ UNCHANGED <<probe, prog, tree, dstfs, remote, queue, login>>

Terminal == {"done", "error", "cancelled"}

\* the tab is back in Idle
Idle(ts, t) == [ts EXCEPT ![t].start_btn = "normal", ![t].stop_btn = "disabled",
                          ![t].worker_thread = 0]

\* a variant of the handler that applies every message to the Local tab,
\* whatever its tab_id
HandleFirstTab(ts, m) ==
    LET t == TAB_LOCAL
        a == [ts EXCEPT ![t].ack = IF m.phase \in Terminal THEN m.phase ELSE @]
    IN  CASE m.phase = "downloading" -> [a EXCEPT ![t].progress_bar = m.percent]
          [] m.phase = "done" -> [Idle(a, t) EXCEPT ![t].progress_bar = 100]
          [] m.phase = "cancelled" -> Idle(a, t)
          [] m.phase = "error" -> Idle(a, t)
          [] m.phase = "login_success" ->
                 [a EXCEPT ![t].login_btn = "disabled", ![t].start_btn = "normal"]
          [] m.phase = "login_error" -> [a EXCEPT ![t].login_btn = "normal"]
          [] OTHER -> a

\* App._process_queue (uigdrive): one message
Handle(ts, m) ==
    LET t == m.tab_id
        a == [ts EXCEPT ![t].ack = IF m.phase \in Terminal THEN m.phase ELSE @]
    IN  CASE m.phase = "downloading" -> [a EXCEPT ![t].progress_bar = m.percent]
          [] m.phase = "done" -> [Idle(a, t) EXCEPT ![t].progress_bar = 100]
          [] m.phase = "cancelled" -> Idle(a, t)
          [] m.phase = "error" -> Idle(a, t)
          [] m.phase = "login_success" ->
                 [a EXCEPT ![t].login_btn = "disabled", ![t].start_btn = "normal"]
          [] m.phase = "login_error" -> [a EXCEPT ![t].login_btn = "normal"]
          [] OTHER -> a

\* App._process_queue (uipytest): one message
PyHandle(ts, m) ==
    LET t == TAB_APP
        a == [ts EXCEPT ![t].ack = IF m.phase \in Terminal THEN m.phase ELSE @]
    IN  CASE m.phase = "downloading" -> [a EXCEPT ![t].progress_bar = m.percent]
          [] m.phase = "done" -> [Idle(a, t) EXCEPT ![t].progress_bar = 100]
          [] m.phase = "error" -> Idle(a, t)
          [] OTHER -> a

RECURSIVE Drain(_, _, _)
\* the "while True: get_nowait()" loop over the messages q[k..]
Drain(ts, q, k) ==
    IF k > Len(q) THEN ts
    ELSE Drain(IF prog = "uigdrive" THEN Handle(ts, q[k]) ELSE PyHandle(ts, q[k]), q, k + 1)

\* App._process_queue, the timer callback: reads the queue until it is empty
ProcessQueue ==
    /\ queue # <<>>
    /\ tabs' = Drain(tabs, queue, 1)
    /\ queue' = <<>>
    /\ UNCHANGED <<probe, prog, tree, dstfs, remote, runs, login>>

---------------------------------------------------------------------------
(* The batch program (pytest.py): one source path given to sync_multiple *)

\* sync_multiple(src_paths, dst, workers=4)
BATCH_WORKERS == 4

\* the main block and sync_multiple: a path that exists is synced as a file
\* or as a folder, any other path is reported as invalid; sync_folder creates
\* the destination folder and submits one task per file
BatchStart ==
    /\ prog = "pytest"
    /\ tree.kind # "missing"
    /\ Len(runs) < MaxRuns
    /\ \A r \in 1..Len(runs) : ~Alive(r)
    /\ LET new == [NewRun("none", "batch") EXCEPT
                      !.mode = tree.kind,
                      !.task = [i \in 1..Len(tree.files) |-> NoTask]]
       IN  runs' = Append(runs,
                 IF tree.kind = "other"
                 THEN [new EXCEPT !.pc = "done", !.phase = "invalid"]
                 ELSE IF tree.kind = "dir" /\ ~tree.dst_ok
                 THEN [new EXCEPT !.pc = "done", !.phase = "raised"]
                 ELSE [new EXCEPT !.pc = IF tree.kind = "dir" THEN "pool" ELSE "file"])
    /\ UNCHANGED <<probe, prog, tree, dstfs, remote, queue, tabs, login>>

\* a pool thread is free for task i; sync_file runs process_file itself
BatchPoolFree(r, i) ==
    \/ runs[r].mode = "file"
    \/ /\ \A j \in 1..(i - 1) : runs[r].task[j].pc # "queued"
       /\ Cardinality({j \in 1..NTasks(r) :
                          runs[r].task[j].pc \notin {"queued", "done"}}) < BATCH_WORKERS

\* process_file: needs_update raises, or the file is skipped, or it is copied
BatchProcessFile(r, i) ==
    /\ r \in 1..Len(runs)
    /\ runs[r].cls = "batch"
    /\ runs[r].pc \in {"pool", "unwind", "file"}
    /\ i \in 1..NTasks(r)
    /\ runs[r].task[i].pc = "queued"
    /\ BatchPoolFree(r, i)
    /\ runs' =
         IF BatchNeedsUpdateRaises(Src(i), dstfs[i]) THEN Return(r, i, "raised")
         ELSE IF BatchNeedsUpdate(Src(i), dstfs[i])
         THEN [runs EXCEPT ![r].task[i].pc = "copy"]
         ELSE Return(r, i, "skipped")
    /\ UNCHANGED <<probe, prog, tree, dstfs, remote, queue, tabs, login>>

\* copy_file_with_progress: the chunk loop under the tqdm bar and copystat,
\* all inside one try
BatchCopy(r, i) ==
    /\ r \in 1..Len(runs)
    /\ runs[r].cls = "batch"
    /\ i \in 1..NTasks(r)
    /\ runs[r].task[i].pc = "copy"
    /\ IF St(Src(i)) # "ok" \/ ~tree.dst_ok
       THEN /\ runs' = Return(r, i, "error")
            /\ dstfs' = dstfs
       ELSE \E copystat \in BOOLEAN :
              IF copystat
              THEN /\ runs' = [Return(r, i, "updated") EXCEPT
                                  ![r].task[i].meta = "ok", ![r].wrote = TRUE]
                   /\ dstfs' = [dstfs EXCEPT
                                   ![i] = DstFile(Src(i).size, Src(i).mtime, Src(i).cid)]
              ELSE /\ runs' = [Return(r, i, "error") EXCEPT
                                  ![r].task[i].meta = "failed", ![r].wrote = TRUE]
                   /\ dstfs' = [dstfs EXCEPT
                                   ![i] = DstFile(Src(i).size, Now, Src(i).cid)]
    /\ UNCHANGED <<probe, prog, tree, remote, queue, tabs, login>>

\* sync_folder: "for f in ThreadPoolExecutor(futures)" builds a pool whose
\* max_workers is the dict futures; the comparison max_workers <= 0 raises
\* TypeError as soon as the tasks are submitted, for an empty dict as well
BatchIterate(r) ==
    /\ r \in 1..Len(runs)
    /\ runs[r].cls = "batch"
    /\ runs[r].pc = "pool"
    /\ runs' = [runs EXCEPT ![r].pc = "unwind"]
    /\ UNCHANGED <<probe, prog, tree, dstfs, remote, queue, tabs, login>>

\* the end of "with ThreadPoolExecutor": the submitted tasks run to their
\* end, then the TypeError leaves sync_folder and the program; no result was
\* collected and no summary is printed
BatchExit(r) ==
    /\ r \in 1..Len(runs)
    /\ runs[r].cls = "batch"
    /\ runs[r].pc = "unwind"
    /\ \A i \in 1..NTasks(r) : runs[r].task[i].pc = "done"
    /\ runs' = [runs EXCEPT ![r].pc = "done", ![r].phase = "raised"]
    /\ UNCHANGED <<probe, prog, tree, dstfs, remote, queue, tabs, login>>

\* sync_file: the result of process_file is printed as the summary; an
\* exception of needs_update leaves sync_file and the program
BatchFileDone(r) ==
    /\ r \in 1..Len(runs)
    /\ runs[r].cls = "batch"
    /\ runs[r].pc = "file"
    /\ runs[r].task[1].pc = "done"
    /\ runs' = IF runs[r].task[1].result = "raised"
               THEN [runs EXCEPT ![r].pc = "done", ![r].phase = "raised"]
               ELSE [runs EXCEPT ![r].pc = "done", ![r].phase = "summary",
                                 ![r].synced = TRUE,
                                 ![r].results = <<runs[r].task[1].result>>]
    /\ UNCHANGED <<probe, prog, tree, dstfs, remote, queue, tabs, login>>

---------------------------------------------------------------------------
(* needs_update called on one pair of files *)

\* the source files and the destination files of the calls
ProbeSrc ==
    [ name : {"a.txt"}, size : {0, SizeB, SizeA},
      mtime : {<<1, 0>>, <<1, 1>>, <<2, 0>>}, cid : {"A", "B"},
      st : {"ok", "noread", "nostat", "statonly"} ]
ProbeDst ==
    {Absent} \cup
    [ exists : {TRUE}, size : {0, SizeB, SizeA},
      mtime : {<<1, 0>>, <<1, 1>>, <<2, 0>>}, cid : {"A", "B"},
      st : {"ok", "noread", "nostat"} ]

\* the value a call returned
Returned(b) == IF b THEN "True" ELSE "False"

\* LocalTransfer.needs_update(src_path, dst_path)
CallNeedsUpdate ==
    /\ probe.variant = "uigdrive"
    /\ probe.out = "none"
    /\ probe' = [probe EXCEPT !.out = Returned(NeedsUpdate(probe.s, probe.d))]
    /\ UNCHANGED <<prog, tree, dstfs, remote, queue, tabs, runs, login>>

\* transfer.needs_update(src_path, dst_path)
CallPyNeedsUpdate ==
    /\ probe.variant = "uipytest"
    /\ probe.out = "none"
    /\ probe' = [probe EXCEPT !.out = Returned(PyNeedsUpdate(probe.s, probe.d))]
    /\ UNCHANGED <<prog, tree, dstfs, remote, queue, tabs, runs, login>>

\* needs_update(src, dst) of pytest.py
CallBatchNeedsUpdate ==
    /\ probe.variant = "pytest"
    /\ probe.out = "none"
    /\ probe' = [probe EXCEPT !.out =
                    IF BatchNeedsUpdateRaises(probe.s, probe.d) THEN "raise"
                    ELSE Returned(BatchNeedsUpdate(probe.s, probe.d))]
    /\ UNCHANGED <<prog, tree, dstfs, remote, queue, tabs, runs, login>>

---------------------------------------------------------------------------
(* Specifications *)

LocalEngine ==
    \E r \in 1..MaxRuns :
        \/ RunBegin(r)
        \/ Collect(r)
        \/ RunFinish(r)
        \/ \E i \in 1..3 :
              \/ ProcessFile(r, i)
              \/ CopyBegin(r, i)
              \/ ChunkCheck(r, i)
              \/ ChunkCopy(r, i)
              \/ LockAcquire(r, i)
              \/ LockAdd(r, i)
              \/ PutProgress(r, i)

\* the local sync of both programs: nobody logs in to Google Drive
NextSync ==
    \/ LocalEngine
    \/ StartTransfer(TAB_LOCAL)
    \/ PyStartTransfer
    \/ \E t \in {TAB_LOCAL, TAB_APP} : CancelTransfer(t)
    \/ ProcessQueue

SpecSync == Init /\ [][NextSync]_vars

GDriveEngine ==
    \E r \in 1..MaxRuns :
        \/ GRunBegin(r)
        \/ GRunFinish(r)
        \/ \E i \in 1..3 :
              \/ GCheck(r, i)
              \/ GUpload(r, i)
              \/ GLockAdd(r, i)
              \/ GPutProgress(r, i)
              \/ GFileError(r, i)

\* the GDrive tab of uigdrive
NextGDrive ==
    \/ GDriveEngine
    \/ Glogin
    \/ PerformLogin
    \/ StartTransfer(TAB_GDRIVE)
    \/ CancelTransfer(TAB_GDRIVE)
    \/ ProcessQueue

SpecGDrive == InitWith({"uigdrive"}, GTrees) /\ [][NextGDrive]_vars

\* both programs, every tab
Next ==
    \/ LocalEngine
    \/ GDriveEngine
    \/ Glogin
    \/ PerformLogin
    \/ \E t \in {TAB_LOCAL, TAB_GDRIVE} : StartTransfer(t)
    \/ PyStartTransfer
    \/ \E t \in {TAB_LOCAL, TAB_GDRIVE, TAB_APP} : CancelTransfer(t)
    \/ ProcessQueue

Spec == Init /\ [][Next]_vars

\* the folders both tabs of uigdrive work on at the same time
TabTrees ==
    { Tree("dir", <<fb>>, <<Absent>>),
      Tree("dir", <<fa, fb>>, <<Absent, Absent>>) }

\* LocalTransfer on files below the threshold: the chunk loop is not entered
SmallEngine ==
    \E r \in 1..MaxRuns :
        \/ RunBegin(r)
        \/ Collect(r)
        \/ RunFinish(r)
        \/ \E i \in 1..2 :
              \/ ProcessFile(r, i)
              \/ CopyBegin(r, i)
              \/ LockAcquire(r, i)
              \/ LockAdd(r, i)
              \/ PutProgress(r, i)

\* uigdrive with both tabs in use
NextTabs ==
    \/ SmallEngine
    \/ GDriveEngine
    \/ Glogin
    \/ PerformLogin
    \/ \E t \in {TAB_LOCAL, TAB_GDRIVE} : StartTransfer(t)
    \/ \E t \in {TAB_LOCAL, TAB_GDRIVE} : CancelTransfer(t)
    \/ ProcessQueue

SpecTabs == InitWith({"uigdrive"}, TabTrees) /\ [][NextTabs]_vars

\* the local sync with cancel requests that are repeated
CancelTrees ==
    { Tree("dir", <<fa, fb>>, <<Absent, Absent>>),
      Tree("dir", <<fmid>>, <<Absent>>),
      Tree("dir", <<fbig>>, <<Absent>>) }

NextCancel ==
    \/ NextSync
    \/ \E t \in {TAB_LOCAL, TAB_APP} : CancelAgain(t)

SpecCancel == InitWith({"uigdrive", "uipytest"}, CancelTrees) /\ [][NextCancel]_vars

\* the batch program
NextBatch ==
    \/ BatchStart
    \/ \E r \in 1..MaxRuns :
          \/ BatchIterate(r)
          \/ BatchExit(r)
          \/ BatchFileDone(r)
          \/ \E i \in 1..3 :
                \/ BatchProcessFile(r, i)
                \/ BatchCopy(r, i)

SpecBatch == InitWith({"pytest"}, Trees) /\ [][NextBatch]_vars

\* the three variants of needs_update, each called once on every pair of a
\* source file and a destination file
InitCheck ==
    /\ InitProbe({"uigdrive", "uipytest", "pytest"}, {Tree("dir", <<>>, <<>>)},
                 [variant : {"uigdrive", "uipytest", "pytest"},
                  s : ProbeSrc, d : ProbeDst, out : {"none"}])
    /\ probe.variant = prog

NextCheck ==
    \/ CallNeedsUpdate
    \/ CallPyNeedsUpdate
    \/ CallBatchNeedsUpdate

SpecCheck == InitCheck /\ [][NextCheck]_vars

---------------------------------------------------------------------------
(* Claims *)

Runs == 1..Len(runs)
LocalRuns == {r \in Runs : runs[r].cls = "local"}
HasResult(r, res) == \E k \in 1..Len(runs[r].results) : runs[r].results[k] = res
OnlyResults(r, S) == \A k \in 1..Len(runs[r].results) : runs[r].results[k] \in S

\* C1: when sync_folder returned in a run in which cancellation was
\* requested, its results hold one entry per submitted task, each Updated,
\* Skipped or Cancelled.
C1_ResultPerTask ==
    \A r \in LocalRuns :
        (runs[r].synced /\ runs[r].mode = "dir" /\ runs[r].canc)
            => /\ Len(runs[r].results) = NTasks(r)
               /\ OnlyResults(r, {"updated", "skipped", "cancelled"})

\* C2: a tab never has two live worker threads: a start request is not
\* accepted while a worker thread of the tab still runs.
C2_OneActiveRun ==
    \A t \in TabsOf(prog) :
        Cardinality({r \in Runs : runs[r].tab = t /\ Alive(r)}) <= 1

\* C3: the percent values of the downloading events a run puts on the queue
\* never decrease, in the order they are put.
C3_PercentMonotone ==
    [][\A r \in Runs : runs'[r].lastPct >= runs[r].lastPct]_vars

\* C3 witness: a skipped file's event and then a copied file's event of the
\* same run wait on the queue, the second with the larger percent, and the
\* run has published 100.
C3_Witness ==
    \E j, k \in 1..Len(queue) :
        /\ j < k
        /\ queue[j].phase = "downloading" /\ queue[k].phase = "downloading"
        /\ queue[j].run = queue[k].run
        /\ queue[j].name # queue[k].name
        /\ queue[j].percent < queue[k].percent
        /\ runs[queue[k].run].lastPct = 100

\* C4: a run that published Done (no Error result, no cancellation) added
\* totalsize bytes in all, and the last downloading event it published, if
\* it published one, carries percent 100.
C4_FullProgress ==
    \A r \in LocalRuns :
        (runs[r].phase = "done" /\ NTasks(r) > 0)
            => /\ runs[r].added = runs[r].totalsize
               /\ runs[r].lastPct >= 0 => runs[r].lastPct = 100

\* C5: the terminal phase is Error whenever a result is Error, Cancelled when
\* cancellation was requested and no result is Error, Done otherwise.
C5_ErrorFirst ==
    \A r \in LocalRuns :
        runs[r].synced =>
            runs[r].phase = IF HasResult(r, "error") THEN "error"
                            ELSE IF runs[r].canc THEN "cancelled"
                            ELSE "done"

\* C5 as amended: Cancelled whenever cancellation was requested before the
\* run's token check, also when a result is Error; Error when it was not
\* requested and a collected result is Error; Done otherwise.
C5_CancelFirst ==
    \A r \in LocalRuns :
        runs[r].synced =>
            /\ runs[r].phase = "cancelled" <=> runs[r].canc
            /\ runs[r].phase = "error" <=> (~runs[r].canc /\ HasResult(r, "error"))
            /\ runs[r].phase = "done" <=> (~runs[r].canc /\ ~HasResult(r, "error"))

\* C5 witness: a run ended Cancelled with an Error result collected.
C5_Witness ==
    \E r \in LocalRuns :
        runs[r].synced /\ runs[r].phase = "cancelled" /\ HasResult(r, "error")

\* C6: a run ends Cancelled only if the token was set and a collected result
\* is Cancelled or no result was produced.
C6_CancelledNeedsCancelledResult ==
    \A r \in LocalRuns :
        runs[r].phase = "cancelled"
            => runs[r].canc /\ (HasResult(r, "cancelled") \/ runs[r].results = <<>>)

\* C6 as amended: a run ends Cancelled only if cancel_transfer set the token
\* while it ran, and the token is still set while the run is the session's
\* worker; the results need not hold a Cancelled entry.
C6_CancelledNeedsToken ==
    \A r \in LocalRuns :
        runs[r].phase = "cancelled"
            => /\ runs[r].canc
               /\ tabs[runs[r].tab].worker_thread = r => tabs[runs[r].tab].stop_event

\* C6 witness: a run ended Cancelled although every task returned Updated or
\* Skipped and every result was collected.
C6_Witness ==
    \E r \in LocalRuns :
        /\ runs[r].phase = "cancelled"
        /\ Len(runs[r].results) = NTasks(r)
        /\ NTasks(r) >= 2
        /\ OnlyResults(r, {"updated", "skipped"})

\* C7: when a LocalTransfer run published Done, its results hold one entry
\* per enumerated task and each is Updated or Skipped.
C7_DoneResults ==
    \A r \in LocalRuns :
        runs[r].phase = "done"
            => /\ Len(runs[r].results) = NTasks(r)
               /\ OnlyResults(r, {"updated", "skipped"})

\* C7 witness: a run of two tasks published Done with one Updated and one
\* Skipped result.
C7_Witness ==
    \E r \in LocalRuns :
        /\ runs[r].phase = "done"
        /\ NTasks(r) >= 2
        /\ HasResult(r, "updated") /\ HasResult(r, "skipped")

C9_TokenMonotone ==
    [][\A t \in TabsOf(prog) :
          (tabs[t].stop_event /\ ~tabs'[t].stop_event)
              => /\ Len(runs') = Len(runs) + 1
                 /\ runs'[Len(runs')].tab = t
                 /\ \A r \in Runs : runs[r].tab = t => ~Alive(r)]_vars

\* C10: once the front end has read a terminal event of a tab, and until the
\* next start request, the tab is Idle: Start is enabled and the worker
\* reference is cleared.
C10_IdleAfterTerminal ==
    \A t \in TabsOf(prog) :
        tabs[t].ack # "none"
            => tabs[t].start_btn = "normal" /\ tabs[t].worker_thread = 0

\* the call of needs_update was made and no stat or read of it failed
Called == probe.out # "none"
NoFailure == St(probe.s) = "ok" /\ St(probe.d) = "ok"
AnyFailure ==
    \/ St(probe.s) # "ok"
    \/ probe.d.exists /\ St(probe.d) # "ok"
\* the two files hold different bytes
ContentDiffers ==
    \/ probe.s.size # probe.d.size
    \/ probe.s.size > 0 /\ probe.s.cid # probe.d.cid

\* C11: without I/O failure every variant of needs_update returns true
\* exactly when the destination is absent, or the sizes differ, or the
\* source's whole-second mtime is greater than the destination's, or the
\* contents differ.
C11_NeedsUpdateIff ==
    (Called /\ NoFailure)
        => /\ probe.out \in {"True", "False"}
           /\ probe.out = "True" <=>
                  \/ ~probe.d.exists
                  \/ probe.s.size # probe.d.size
                  \/ Seconds(probe.s.mtime) > Seconds(probe.d.mtime)
                  \/ ContentDiffers

\* C11 witness: LocalTransfer.needs_update returned False for a source that
\* is newer than the destination by a fraction of the same second, with
\* equal size and content.
C11_Witness ==
    /\ Called /\ NoFailure /\ probe.variant = "uigdrive"
    /\ probe.d.exists /\ ~ContentDiffers /\ probe.s.size > 0
    /\ probe.s.mtime = <<1, 1>> /\ probe.d.mtime = <<1, 0>>
    /\ probe.out = "False"

\* C12: when a stat or a read of the change check fails, every variant of
\* needs_update returns true: none returns false and none raises.
C12_FailSafe ==
    (Called /\ AnyFailure) => probe.out = "True"

\* C13: needs_update returns false for a destination of equal size whose
\* mtime is newer than the source's, also when the contents differ.
C13_NewerDstNeverCopied ==
    (/\ Called /\ NoFailure /\ probe.d.exists
     /\ probe.s.size = probe.d.size
     /\ Seconds(probe.d.mtime) > Seconds(probe.s.mtime))
        => probe.out = "False"

\* C13 as amended: for a destination of equal size whose mtime is newer than
\* the source's the timestamps trigger no copy, and the digests decide:
\* needs_update returns true exactly when the contents differ.
C13_NewerDstDigestDecides ==
    (/\ Called /\ NoFailure /\ probe.d.exists
     /\ probe.s.size = probe.d.size
     /\ Seconds(probe.d.mtime) > Seconds(probe.s.mtime))
        => (probe.out = "True" <=> ContentDiffers)

\* C13 witness: LocalTransfer.needs_update returned True for a destination
\* newer than the source, of equal size and different content.
C13_Witness ==
    /\ Called /\ NoFailure /\ probe.variant = "uigdrive"
    /\ probe.d.exists /\ probe.s.size = probe.d.size
    /\ Seconds(probe.d.mtime) > Seconds(probe.s.mtime)
    /\ ContentDiffers
    /\ probe.out = "True"

\* C14: in a run that was not cancelled every task ran to its own result,
\* Updated, Skipped or Error, whatever the results of its siblings, and the
\* result collection holds the results of all tasks in task order.
C14_FailuresIsolated ==
    \A r \in LocalRuns :
        (runs[r].synced /\ ~runs[r].canc)
            => /\ Len(runs[r].results) = NTasks(r)
               /\ \A i \in 1..NTasks(r) :
                      /\ runs[r].task[i].pc = "done"
                      /\ runs[r].task[i].result \in {"updated", "skipped", "error"}
                      /\ runs[r].results[i] = runs[r].task[i].result

\* C14 witness: an uncancelled folder run returned with the Error result of
\* its first task and the Updated result of the second.
C14_Witness ==
    \E r \in LocalRuns :
        /\ runs[r].synced /\ ~runs[r].canc /\ runs[r].mode = "dir"
        /\ runs[r].results = <<"error", "updated">>

Tasks(r) == 1..NTasks(r)

\* C15: a 0-byte file absent at the destination is Updated by the first run
\* that reaches it, as the single-file source or inside a folder, and
\* Skipped by a later run.
C15_EmptyFileUpdated ==
    \A r \in LocalRuns : \A i \in Tasks(r) :
        (/\ Src(i).size = 0 /\ St(Src(i)) = "ok" /\ ~tree.dst0[i].exists
         /\ runs[r].task[i].pc = "done" /\ ~runs[r].canc
         /\ runs[r].task[i].meta # "failed")
            => runs[r].task[i].result =
                   IF \E q \in LocalRuns : q < r /\ runs[q].task[i].result = "updated"
                   THEN "skipped" ELSE "updated"

\* C16: the step in which a task returns Skipped leaves the task with its
\* file's size added to current_size and puts one downloading event named
\* "(Skipped) " and the file name.
C16_SkipAdvances ==
    [][\A r \in LocalRuns : \A i \in Tasks(r) :
          (runs[r].task[i].result # "skipped" /\ runs'[r].task[i].result = "skipped")
              => /\ runs'[r].task[i].bytes = Src(i).size
                 /\ Len(queue') = Len(queue) + 1
                 /\ queue'[Len(queue')].phase = "downloading"
                 /\ queue'[Len(queue')].name = Src(i).name
                 /\ queue'[Len(queue')].skipped]_vars

\* C17: a task whose copy of the metadata failed after its data was copied
\* returns Updated, below the threshold and chunked.
C17_MetadataSwallowed ==
    \A r \in LocalRuns : \A i \in Tasks(r) :
        (runs[r].task[i].pc = "done" /\ runs[r].task[i].meta = "failed")
            => runs[r].task[i].result = "updated"

\* ceil(a / b)
Ceil(a, b) == (a + b - 1) \div b

\* C19: an Updated file below the threshold added one delta, its size; an
\* Updated file at or above it added one delta per chunk, its size in all.
C19_DeltaBySize ==
    \A r \in LocalRuns : \A i \in Tasks(r) :
        runs[r].task[i].result = "updated"
            => /\ runs[r].task[i].bytes = Src(i).size
               /\ runs[r].task[i].deltas =
                      IF Src(i).size < LARGE_FILE_THRESHOLD THEN 1
                      ELSE Ceil(Src(i).size, CHUNK_SIZE)

\* C19 as amended: LocalTransfer (uigdrive) adds one delta, its size, for an
\* Updated file below the threshold and one delta per chunk at or above it;
\* transfer (uipytest) has no threshold and adds one delta per chunk for
\* every Updated file (none for a 0-byte file); the deltas sum to the size.
C19_DeltaByVariant ==
    \A r \in LocalRuns : \A i \in Tasks(r) :
        runs[r].task[i].result = "updated"
            => /\ runs[r].task[i].bytes = Src(i).size
               /\ runs[r].task[i].deltas =
                      IF prog = "uigdrive" /\ Src(i).size < LARGE_FILE_THRESHOLD THEN 1
                      ELSE Ceil(Src(i).size, CHUNK_SIZE)

\* C19 witness: transfer (uipytest) copied a file of three chunks, below the
\* threshold, with three deltas.
C19_Witness ==
    \E r \in LocalRuns : \E i \in Tasks(r) :
        /\ prog = "uipytest" /\ Src(i) = fmid
        /\ runs[r].task[i].result = "updated"
        /\ runs[r].task[i].deltas = 3
        /\ runs[r].task[i].bytes = fmid.size

BatchRuns == {r \in Runs : runs[r].cls = "batch"}
CountOf(r, res) == Cardinality({k \in 1..Len(runs[r].results) : runs[r].results[k] = res})

\* C20: when sync_folder of the batch program has ended, it collected one
\* result per enumerated file and printed the summary, whose updated,
\* skipped and errors counts add up to the number of files.
C20_BatchSummary ==
    \A r \in BatchRuns :
        (runs[r].mode = "dir" /\ runs[r].pc = "done" /\ tree.dst_ok)
            => /\ runs[r].phase = "summary"
               /\ Len(runs[r].results) = NTasks(r)
               /\ CountOf(r, "updated") + CountOf(r, "skipped") + CountOf(r, "error")
                      = NTasks(r)

\* a task of run r returns Cancelled, or r publishes Cancelled, in this step
CancelledNow(r) ==
    \/ \E i \in Tasks(r) :
          runs[r].task[i].result # "cancelled" /\ runs'[r].task[i].result = "cancelled"
    \/ runs[r].phase # "cancelled" /\ runs'[r].phase = "cancelled"

\* C18: the tabs of uigdrive are independent.  A step that sets the token of
\* a tab changes no other tab and no run; a task returns Cancelled, and a
\* run ends Cancelled, only while the token of its own tab is set; the step
\* that puts an event of a run changes no other run and no tab; and reading
\* the queue changes no run and only the tabs named by the messages read.
C18_SessionsIndependent ==
    [][/\ \A t \in TabsOf(prog) :
             (~tabs[t].stop_event /\ tabs'[t].stop_event)
                 => /\ \A u \in TabsOf(prog) \ {t} : tabs'[u] = tabs[u]
                    /\ \A r \in Runs : runs[r].tab # t => runs'[r] = runs[r]
       /\ \A r \in Runs : CancelledNow(r) => tabs[runs[r].tab].stop_event
       /\ Len(queue') = Len(queue) + 1
             => /\ tabs' = tabs \/ queue'[Len(queue')].run = 0
                /\ \A r \in Runs : r # queue'[Len(queue')].run => runs'[r] = runs[r]
       /\ (queue # <<>> /\ queue' = <<>>)
             => /\ runs' = runs
                /\ \A t \in TabsOf(prog) :
                       tabs'[t] # tabs[t] => \E k \in 1..Len(queue) : queue[k].tab_id = t
      ]_vars

\* C18 witness: the Local run and the GDrive run are both alive, the Local
\* tab was cancelled and a task of its run returned Cancelled, the token of
\* the GDrive tab is not set and a task of its run uploaded its file.
C18_Witness ==
    \E r1, r2 \in Runs :
        /\ runs[r1].tab = TAB_LOCAL /\ runs[r2].tab = TAB_GDRIVE
        /\ Alive(r1) /\ Alive(r2)
        /\ tabs[TAB_LOCAL].stop_event /\ ~tabs[TAB_GDRIVE].stop_event
        /\ \E i \in Tasks(r1) : runs[r1].task[i].result = "cancelled"
        /\ \E i \in Tasks(r2) : runs[r2].task[i].result = "updated"

\* C21: whenever the task set of a run is not empty, totalsize, the divisor
\* of the percent, is at least 1, for a folder source and for a single-file
\* source.
C21_TotalPositive ==
    \A r \in LocalRuns :
        (runs[r].pc # "begin" /\ NTasks(r) > 0) => runs[r].totalsize >= 1

\* C22: current_size never exceeds totalsize, and the percent a task
\* computed under the lock for its Downloading event is
\* floor(current_size * 100 / totalsize), a value of 0..100.
C22_PercentIsFloor ==
    \A r \in LocalRuns : \A i \in Tasks(r) :
        /\ runs[r].totalsize > 0 => runs[r].current_size <= runs[r].totalsize
        /\ (runs[r].task[i].pc = "put" /\ runs[r].totalsize > 0)
              => /\ runs[r].task[i].pct = (runs[r].current_size * 100) \div runs[r].totalsize
                 /\ runs[r].task[i].pct \in 0..100

\* C23: progress updates are not lost.  At most one task of a run is inside
\* the locked section (between the load of current_size and the put of its
\* event), and once every task of the run has finished, current_size equals
\* the sum of the amounts the tasks added.
C23_NoLostUpdate ==
    \A r \in LocalRuns :
        /\ Cardinality({i \in Tasks(r) : runs[r].task[i].pc \in {"add", "put"}}) <= 1
        /\ (\A i \in Tasks(r) : runs[r].task[i].pc = "done")
              => runs[r].current_size = runs[r].added

\* C23 witness: two tasks of a run both added their bytes and finished; the
\* counter holds the sum.
C23_Witness ==
    \E r \in LocalRuns : \E i, j \in Tasks(r) :
        /\ i # j
        /\ runs[r].task[i].bytes > 0 /\ runs[r].task[j].bytes > 0
        /\ \A k \in Tasks(r) : runs[r].task[k].pc = "done"
        /\ runs[r].current_size = runs[r].task[i].bytes + runs[r].task[j].bytes

\* a task of run r returns Cancelled from its entry check in this step
EntryCancel(r, i) ==
    /\ runs[r].task[i].pc \in {"queued", "copy"}
    /\ runs'[r].task[i].pc = "done"
    /\ runs'[r].task[i].result = "cancelled"

\* C24: a task entered while the token is set returns Cancelled without
\* hashing or writing anything: the step of a task that is entered (into
\* process_file or into copy_file_with_progress) under a set token is its
\* return of Cancelled; it leaves the destination files, the counter
\* current_size and the queue as they were, and the task has taken neither
\* branch of needs_update (kind "none") and has added nothing.
C24_CancelledUntouched ==
    [][\A r \in LocalRuns : \A i \in Tasks(r) :
          (runs[r].task[i].pc \in {"queued", "copy"} /\ Token(r)
               /\ runs'[r].task[i].pc # runs[r].task[i].pc)
              => /\ EntryCancel(r, i)
                 /\ dstfs' = dstfs
                 /\ queue' = queue
                 /\ runs'[r].current_size = runs[r].current_size
                 /\ runs'[r].task[i].deltas = 0
                 /\ runs'[r].task[i].kind = "none"
      ]_vars

\* C24 witness: a task that was still queued when the token was set has
\* returned Cancelled; its destination file is as it was at the start.
C24_Witness ==
    \E r \in LocalRuns : \E i \in Tasks(r) :
        /\ runs[r].canc
        /\ runs[r].task[i].result = "cancelled"
        /\ runs[r].task[i].kind = "none"
        /\ dstfs[i] = tree.dst0[i]
        /\ \E j \in Tasks(r) : j # i /\ runs[r].task[j].result = "updated"

\* C25: the cancellation latency of a chunked copy is one chunk.  A task
\* writes at most one chunk while the token is set, and a task that wrote a
\* chunk while the token was set returns Cancelled.
C25_OneChunkLatency ==
    \A r \in LocalRuns : \A i \in Tasks(r) :
        /\ runs[r].task[i].late <= 1
        /\ (runs[r].task[i].late = 1 /\ runs[r].task[i].pc = "done")
              => runs[r].task[i].result = "cancelled"

\* C25 witness: the token was set while a copy of several chunks was between
\* its check and its write; the copy wrote that chunk, returned Cancelled and
\* left a destination file that lacks more than one chunk.
C25_Witness ==
    \E r \in LocalRuns : \E i \in Tasks(r) :
        /\ runs[r].task[i].late = 1
        /\ runs[r].task[i].result = "cancelled"
        /\ Src(i).size - dstfs[i].size > CHUNK_SIZE

\* the queue holds one more event, a Downloading event of run r
PutsDownloading(r) ==
    /\ Len(queue') = Len(queue) + 1
    /\ queue'[Len(queue')].run = r
    /\ queue'[Len(queue')].phase = "downloading"

\* C26: dispatched tasks are awaited.  When a run has published its terminal
\* event, every task it submitted has finished; from then on no step changes
\* a task of the run or its counter current_size or puts a Downloading event
\* of the run, and a destination file is written only by a task of a run
\* that has not yet published its terminal event.
C26_TasksAwaited ==
    [][\A r \in LocalRuns :
          runs[r].phase # "none"
              => /\ \A i \in Tasks(r) : runs[r].task[i].pc = "done"
                 /\ runs'[r].task = runs[r].task
                 /\ runs'[r].current_size = runs[r].current_size
                 /\ ~PutsDownloading(r)
                 /\ dstfs' # dstfs
                       => \E q \in LocalRuns : runs[q].phase = "none" /\ runs'[q] # runs[q]
      ]_vars

\* C26 witness: a folder run was cancelled and left its collection loop
\* early; a task whose result was not collected had entered its copy, was
\* awaited and returned Cancelled before the run published Cancelled.
C26_Witness ==
    \E r \in LocalRuns : \E i \in Tasks(r) :
        /\ runs[r].phase = "cancelled"
        /\ i > Len(runs[r].results)
        /\ runs[r].task[i].kind = "chunk"
        /\ runs[r].task[i].result = "cancelled"

\* C27: every start request the front end accepts creates a running worker:
\* the step that disables the Start button of a tab leaves the tab with a
\* worker thread that has been started.
C27_StartCreatesWorker ==
    [][\A t \in TabsOf(prog) :
          (tabs[t].start_btn = "normal" /\ tabs'[t].start_btn = "disabled")
              => /\ tabs'[t].worker_thread \in 1..Len(runs')
                 /\ runs'[tabs'[t].worker_thread].pc = "begin"
      ]_vars

\* the events this step put on the queue
Appended ==
    IF Len(queue') > Len(queue) THEN SubSeq(queue', Len(queue) + 1, Len(queue')) ELSE <<>>

\* C28: a run puts at most one terminal-phase event (done, error or
\* cancelled), and it is the last event of the run: a run that has put one
\* puts no further event.
C28_OneTerminalEvent ==
    [][\A r \in Runs :
          /\ runs'[r].terms <= 1
          /\ runs[r].terms >= 1 => \A k \in 1..Len(Appended) : Appended[k].run # r
      ]_vars

\* task i of run r was cancelled inside its chunk loop and left a
\* destination file shorter than the source
LeftTruncated(r, i) ==
    /\ runs[r].task[i].kind = "chunk"
    /\ runs[r].task[i].result = "cancelled"
    /\ runs[r].task[i].bytes < Src(i).size

\* C29: a partially copied file is retried from the start.  When a run was
\* cancelled and a later run of the same sync has ended Done, every file the
\* cancelled run left truncated was copied again in full by the later run,
\* and every destination file has the content of its source.
C29_FullRetry ==
    \A r1, r2 \in LocalRuns :
        (r1 < r2 /\ runs[r1].phase = "cancelled" /\ runs[r2].phase = "done")
            => \A i \in Tasks(r2) :
                  /\ dstfs[i].exists /\ FileHash(dstfs[i]) = FileHash(Src(i))
                  /\ LeftTruncated(r1, i)
                        => /\ runs[r2].task[i].result = "updated"
                           /\ runs[r2].task[i].bytes = Src(i).size

\* C29 witness: the first run was cancelled after it wrote some chunks of
\* a large file, the second run ended Done and the destination file has the
\* size of the source.
C29_Witness ==
    \E r1, r2 \in LocalRuns : \E i \in Tasks(r2) :
        /\ r1 < r2 /\ runs[r1].phase = "cancelled" /\ runs[r2].phase = "done"
        /\ LeftTruncated(r1, i)
        /\ runs[r1].task[i].bytes > 0
        /\ dstfs[i].size = Src(i).size

C31_DistinctDestinations ==
    \A r \in LocalRuns :
        runs[r].mode # "none"
            => /\ NTasks(r) = Len(tree.files)
               /\ \A i \in Tasks(r) :
                     LET d == runs[r].task[i].dst
                     IN  /\ d[Len(d)] = Src(i).name
                         /\ SubSeq(d, 1, 2) = IF runs[r].mode = "file"
                                              THEN <<"dst", Src(i).name>>
                                              ELSE <<"dst", "src">>
               /\ \A i, j \in Tasks(r) :
                     i # j => runs[r].task[i].dst # runs[r].task[j].dst

\* C31 witness: two files of the same name in different subfolders were both
\* copied in one run, each to a destination of its own.
C31_Witness ==
    \E r \in LocalRuns : \E i, j \in Tasks(r) :
        /\ i # j /\ Src(i).name = Src(j).name
        /\ runs[r].task[i].result = "updated" /\ runs[r].task[j].result = "updated"
        /\ dstfs[i].cid = Src(i).cid /\ dstfs[j].cid = Src(j).cid
        /\ dstfs[i].cid # dstfs[j].cid

GDriveRuns == {r \in Runs : runs[r].cls = "gdrive"}

\* run r ended Done and every file was uploaded or skipped
CleanUpload(r) ==
    /\ runs[r].phase = "done"
    /\ \A i \in Tasks(r) : runs[r].task[i].result \in {"updated", "skipped"}

\* C32: a second upload of an unchanged folder uploads nothing.  When a run
\* uploaded or skipped every file and ended Done, a later run over the same
\* folder that read the listing afterwards and ended Done counted every file
\* as skipped and uploaded none, also when files in different subfolders
\* share a name.
C32_RerunSkipsAll ==
    \A r1, r2 \in GDriveRuns :
        (r1 < r2 /\ CleanUpload(r1) /\ CleanUpload(r2))
            => /\ runs[r2].uploaded_count = 0
               /\ runs[r2].skipped_count = NTasks(r2)

\* C33: cancel requests are idempotent.  A call of cancel_transfer on a tab
\* whose token is already set leaves the token set and changes no run (its
\* results, current_size and phase), no event and no destination file: the
\* state after it is the state before it, so the run goes on and ends
\* exactly as after the one cancel request.
C33_CancelIdempotent ==
    [][\A t \in TabsOf(prog) :
          (tabs[t].stop_event /\ CancelAgain(t))
              => /\ tabs'[t].stop_event
                 /\ runs' = runs
                 /\ queue' = queue
                 /\ dstfs' = dstfs
                 /\ \A u \in TabsOf(prog) :
                       [tabs'[u] EXCEPT !.again = "none"] = [tabs[u] EXCEPT !.again = "none"]
      ]_vars

\* C33 witness: cancel was requested a second time while the worker ran and
\* some of its tasks were not finished; the run then ended Cancelled.
C33_Witness ==
    \E r \in LocalRuns :
        /\ tabs[runs[r].tab].again = "running"
        /\ tabs[runs[r].tab].worker_thread = r
        /\ runs[r].phase = "cancelled"
        /\ \E i \in Tasks(r) : runs[r].task[i].result = "cancelled"

====
